---- MODULE Spec2Model ----
(***************************************************************************)
(* Model of scripts/extract_text.py: a command-line dispatcher that picks  *)
(* a text extractor by file extension (main) and the four extractors       *)
(* extract_docx, extract_pdf, extract_pptx, extract_doc_via_system_tools.  *)
(*                                                                         *)
(* A Python str is a sequence of one-character strings, so that strip,     *)
(* join, lower and splitext are computed character by character.           *)
(***************************************************************************)
EXTENDS Integers, Sequences, FiniteSets, TLC

VARIABLES pc, path, mime, ext, selected, stdout, stderr, exitStatus,
          input, locals, result, probes, invoked, soffice, prev

vars == <<pc, path, mime, ext, selected, stdout, stderr, exitStatus,
          input, locals, result, probes, invoked, soffice, prev>>

None == "None"

----------------------------------------------------------------------------
(* Python string primitives                                                *)

\* str.isspace() for a single character, over the characters used here
IsSpace(c) == c \in {" ", "\t", "\n", "\r"}

RECURSIVE LStrip(_)
LStrip(s) == IF s = <<>> THEN <<>>
             ELSE IF IsSpace(Head(s)) THEN LStrip(Tail(s)) ELSE s

RECURSIVE RStrip(_)
RStrip(s) == IF s = <<>> THEN <<>>
             ELSE IF IsSpace(s[Len(s)]) THEN RStrip(SubSeq(s, 1, Len(s) - 1))
             ELSE s

\* str.strip()
Strip(s) == RStrip(LStrip(s))

\* "".join(parts)
RECURSIVE Concat(_)
Concat(parts) == IF parts = <<>> THEN <<>>
                 ELSE Head(parts) \o Concat(Tail(parts))

\* sep.join(parts)
RECURSIVE Join(_, _)
Join(sep, parts) == IF parts = <<>> THEN <<>>
                    ELSE IF Len(parts) = 1 THEN parts[1]
                    ELSE parts[1] \o sep \o Join(sep, Tail(parts))

\* s.startswith(p), s.endswith(p)
StartsWith(s, p) == Len(s) >= Len(p) /\ SubSeq(s, 1, Len(p)) = p
EndsWith(s, p) == Len(s) >= Len(p) /\ SubSeq(s, Len(s) - Len(p) + 1, Len(s)) = p

\* p occurs in s as a contiguous substring (Python "p in s")
Contains(s, p) == \E i \in 0..(Len(s) - Len(p)) : SubSeq(s, i + 1, i + Len(p)) = p

\* str.lower() on one character
LowerChar(c) == CASE c = "A" -> "a" [] c = "C" -> "c" [] c = "D" -> "d"
                  [] c = "F" -> "f" [] c = "O" -> "o" [] c = "P" -> "p"
                  [] c = "T" -> "t" [] c = "X" -> "x" [] c = "Y" -> "y"
                  [] c = "Z" -> "z" [] OTHER -> c

\* str.lower()
Lower(s) == [i \in 1..Len(s) |-> LowerChar(s[i])]

\* str.rfind(c): 1-based position of the last c in s, 0 when absent
RFind(s, c) == IF \E i \in 1..Len(s) : s[i] = c
               THEN CHOOSE i \in 1..Len(s) : s[i] = c /\ \A j \in (i+1)..Len(s) : s[j] # c
               ELSE 0

\* os.path.splitext(p)[1] (posixpath / genericpath._splitext): the suffix
\* from the last dot of the last path component, empty when that component
\* has no dot or only leading dots
SplitExt(p) ==
    LET sepIndex == RFind(p, "/")
        dotIndex == RFind(p, ".")
    IN IF dotIndex > sepIndex
          /\ \E k \in (sepIndex + 1)..(dotIndex - 1) : p[k] # "."
       THEN SubSeq(p, dotIndex, Len(p))
       ELSE <<>>

----------------------------------------------------------------------------
(* Inputs                                                                  *)

MaxTextLen == 1

Alphabet == {"a", " "}

\* every text of at most MaxTextLen characters
Texts == UNION {[1..k -> Alphabet] : k \in 0..MaxTextLen}

DOCX == <<".", "d", "o", "c", "x">>
PDF  == <<".", "p", "d", "f">>
PPTX == <<".", "p", "p", "t", "x">>
DOC  == <<".", "d", "o", "c">>

\* values of --path
Paths == { <<"a">> \o DOCX, <<"a">> \o PDF, <<"a">> \o PPTX, <<"a">> \o DOC,
           <<"a", ".", "D", "o", "c", "X">>, <<"A", ".", "P", "D", "F">>,
           <<"a", ".", "P", "P", "T", "X">>, <<"a", ".", "D", "O", "C">>,
           <<"a", ".", "x", "y", "z">>, <<"a", ".", "X", "Y", "Z">>,
           <<"a", ".", "t", "x", "t">>,
           <<"a">>, PDF, <<"a">> \o PDF \o <<"/", "a">>,
           <<"a">> \o PDF \o DOC, <<"a", "/">> \o DOCX, <<"a", ".">> }

\* values of --mime; the default is the empty string
Mimes == { <<>>, <<"a", "p", "p", "l", "i", "c", "a", "t", "i", "o", "n", "/", "p", "d", "f">> }

----------------------------------------------------------------------------
(* main                                                                    *)

\* lines 149-165 with a recognised MIME hint also routing to an extractor
DispatchByMime(p, m) ==
    LET e == SplitExt(Lower(p))
    IN IF e = DOCX THEN "extract_docx"
       ELSE IF e = PDF \/ m = <<"a", "p", "p", "l", "i", "c", "a", "t", "i", "o", "n", "/", "p", "d", "f">>
            THEN "extract_pdf"
       ELSE IF e = PPTX THEN "extract_pptx"
       ELSE IF e = DOC THEN "extract_doc_via_system_tools"
       ELSE None

\* lines 149-165: the extractor main calls for the arguments p (--path)
\* and m (--mime); None when the final raise is reached
Dispatch(p, m) ==
    LET e == SplitExt(Lower(p))
    IN IF e = DOCX THEN "extract_docx"
       ELSE IF e = PDF THEN "extract_pdf"
       ELSE IF e = PPTX THEN "extract_pptx"
       ELSE IF e = DOC THEN "extract_doc_via_system_tools"
       ELSE None

\* line 167 without the MIME hint
DiagnosticNoMime(e, m) ==
    <<"Unsupported file extension for python extraction: ">> \o e

\* line 167: the message of the SystemExit raised for an unsupported
\* extension
Diagnostic(e, m) ==
    <<"Unsupported file extension for python extraction: ">> \o e
        \o <<" ", "(", "m", "i", "m", "e", "=">> \o m \o <<")">>

\* print(text) followed by a normal return of main
PrintAndExit(text) ==
    /\ result' = text
    /\ stdout' = text \o <<"\n">>
    /\ exitStatus' = 0
    /\ pc' = "exit"
    /\ UNCHANGED stderr

\* an exception that leaves main: the interpreter reports it on standard
\* error and the process exits with status 1
RaiseAndExit(exc, msg) ==
    /\ stderr' = [exc |-> exc, msg |-> msg]
    /\ exitStatus' = 1
    /\ pc' = "exit"
    /\ UNCHANGED <<stdout, result>>

\* nothing on standard error, no extractor input read, no earlier invocation
NoError == [exc |-> None, msg |-> <<>>]
NoInput == [kind |-> None]
NoRun == [selected |-> "NoRun", path |-> <<>>, mime |-> <<>>]

\* the process has not exited while exitStatus is -1
Init ==
    /\ pc = "start"
    /\ path = <<>>
    /\ mime = <<>>
    /\ ext = <<>>
    /\ selected = None
    /\ stdout = <<>>
    /\ stderr = NoError
    /\ exitStatus = -1
    /\ input = NoInput
    /\ locals = <<>>
    /\ result = <<>>
    /\ probes = <<>>
    /\ invoked = <<>>
    /\ soffice = None
    /\ prev = NoRun

\* main up to the call of the selected extractor, or to the final raise
Main ==
    /\ pc = "start"
    /\ \E p \in Paths, m \in Mimes :
         /\ path' = p
         /\ mime' = m
         /\ ext' = SplitExt(Lower(p))
         /\ selected' = Dispatch(p, m)
         /\ IF Dispatch(p, m) # None
            THEN /\ pc' = Dispatch(p, m)
                 /\ UNCHANGED <<stdout, stderr, exitStatus, result>>
            ELSE RaiseAndExit("SystemExit", Diagnostic(SplitExt(Lower(p)), m))
    /\ UNCHANGED <<input, locals, probes, invoked, soffice, prev>>

----------------------------------------------------------------------------
(* extract_doc_via_system_tools                                            *)

MaxDirEntries == 2

ExitCodes == {0, 1}

\* names the office suite may leave in the temporary directory
DirNames == { <<"a", ".", "t", "x", "t">>, <<"a", ".", "T", "X", "T">>,
              <<"a", ".", "l", "o", "g">> }

\* os.listdir(td): at most MaxDirEntries files with distinct names, each
\* with its content
DirListings ==
    LET Files == [name : DirNames, content : Texts]
        All == UNION {[1..k -> Files] : k \in 0..MaxDirEntries}
    IN {d \in All : \A i, j \in 1..Len(d) : i # j => d[i].name # d[j].name}

IsTxt(f) == EndsWith(Lower(f.name), <<".", "t", "x", "t">>)

UnableMsg == << "Unable to extract .doc on this system.", " ",
                "Convert to .docx", ", or install ", "'antiword'", " or ",
                "LibreOffice", "." >>

\* _run(cmd) for the backend named tool: check=True raises
\* CalledProcessError on a non-zero exit status, else the decoded standard
\* output is returned, stripped by the caller and printed by main
RunAndReturn(tool) ==
    \E code \in ExitCodes, out \in Texts :
       /\ invoked' = Append(invoked, [tool |-> tool, code |-> code])
       /\ IF code # 0
          THEN RaiseAndExit("CalledProcessError", <<tool>>)
          ELSE PrintAndExit(Strip(out))

\* line 110: platform.system() == "Darwin" and os.path.exists(textutil);
\* the path is looked up only on Darwin
ProbeTextutil ==
    /\ pc = "extract_doc_via_system_tools"
    /\ \E darwin \in BOOLEAN, exists \in BOOLEAN :
         /\ input' = [kind |-> "doc", darwin |-> darwin]
         /\ probes' = IF darwin
                      THEN Append(probes, [tool |-> "textutil", present |-> exists])
                      ELSE probes
         /\ pc' = IF darwin /\ exists THEN "run_textutil" ELSE "probe_antiword"
    /\ UNCHANGED <<path, mime, ext, selected, stdout, stderr, exitStatus,
                   result, locals, invoked, soffice, prev>>

\* line 111
RunTextutil ==
    /\ pc = "run_textutil"
    /\ RunAndReturn("textutil")
    /\ UNCHANGED <<path, mime, ext, selected, input, locals, probes, soffice, prev>>

\* line 114: which antiword
ProbeAntiword ==
    /\ pc = "probe_antiword"
    /\ \E present \in BOOLEAN :
         /\ probes' = Append(probes, [tool |-> "antiword", present |-> present])
         /\ pc' = IF present THEN "run_antiword" ELSE "probe_soffice"
    /\ UNCHANGED <<path, mime, ext, selected, stdout, stderr, exitStatus,
                   input, result, locals, invoked, soffice, prev>>

\* line 115 with a failed invocation swallowed: the next candidate is tried
RunAntiwordFallthrough ==
    /\ pc = "run_antiword"
    /\ \E code \in ExitCodes, out \in Texts :
         /\ invoked' = Append(invoked, [tool |-> "antiword", code |-> code])
         /\ IF code # 0
            THEN /\ pc' = "probe_soffice"
                 /\ UNCHANGED <<stdout, stderr, exitStatus, result>>
            ELSE PrintAndExit(Strip(out))
    /\ UNCHANGED <<path, mime, ext, selected, input, locals, probes, soffice, prev>>

\* line 115
RunAntiword ==
    /\ pc = "run_antiword"
    /\ RunAndReturn("antiword")
    /\ UNCHANGED <<path, mime, ext, selected, input, locals, probes, soffice, prev>>

\* lines 119-126, one iteration of the loop for the candidate tool; the
\* loop breaks at the first candidate found and `if soffice:` is false
\* after the last one
ProbeOffice(tool, next) ==
    /\ \E present \in BOOLEAN :
         /\ probes' = Append(probes, [tool |-> tool, present |-> present])
         /\ soffice' = IF present THEN tool ELSE soffice
         /\ pc' = IF present THEN "run_office" ELSE next
    /\ UNCHANGED <<path, mime, ext, selected, stdout, stderr, exitStatus,
                   input, locals, result, invoked, prev>>

ProbeSoffice ==
    /\ pc = "probe_soffice"
    /\ ProbeOffice("soffice", "probe_libreoffice")

ProbeLibreoffice ==
    /\ pc = "probe_libreoffice"
    /\ ProbeOffice("libreoffice", "raise_unable")

\* lines 129-139 with soffice set: headless conversion into the temporary
\* directory, then the first *.txt entry of the listing is read, decoded
\* and stripped; without such an entry control leaves the with block and
\* reaches the final raise
RunOffice ==
    /\ pc = "run_office"
    /\ \E code \in ExitCodes, td \in DirListings :
         LET outputs == SelectSeq(td, IsTxt)
         IN /\ invoked' = Append(invoked, [tool |-> soffice, code |-> code])
            /\ IF code # 0
               THEN RaiseAndExit("CalledProcessError", <<soffice>>)
               ELSE IF outputs # <<>>
               THEN PrintAndExit(Strip(outputs[1].content))
               ELSE RaiseAndExit("RuntimeError", UnableMsg)
    /\ UNCHANGED <<path, mime, ext, selected, input, locals, probes, soffice, prev>>

\* lines 137-139 with soffice = None, returning an empty text
RaiseUnableSilent ==
    /\ pc = "raise_unable"
    /\ PrintAndExit(<<>>)
    /\ UNCHANGED <<path, mime, ext, selected, input, locals, probes, invoked, soffice, prev>>

\* lines 137-139 with soffice = None
RaiseUnable ==
    /\ pc = "raise_unable"
    /\ RaiseAndExit("RuntimeError", UnableMsg)
    /\ UNCHANGED <<path, mime, ext, selected, input, locals, probes, invoked, soffice, prev>>

----------------------------------------------------------------------------
(* extract_pdf                                                             *)

MaxPages == 3

\* what importing a PDF library and opening the file with it can do
BackendStates == {"missing", "openfails", "ok"}

\* lines 28-36: PyPDF2 is imported only after pypdf failed
Fallbacks(pypdf) == IF pypdf = "ok" THEN {"unused"} ELSE BackendStates

\* what page.extract_text() can do: raise, return None, return a text
PageOutcomes == {[kind |-> "raise", text |-> <<>>], [kind |-> "none", text |-> <<>>]}
                \cup [kind : {"text"}, text : Texts]

PageSeqs == UNION {[1..k -> PageOutcomes] : k \in 0..MaxPages}

MissingPdfMsg == << "Unable to extract .pdf: ", "missing Python PDF library",
                    " (pypdf / PyPDF2)" >>

\* lines 44-48: the text of one page, stripped
PageText(page) ==
    Strip(IF page.kind = "raise" THEN <<>>
          ELSE IF page.kind = "none" THEN <<>>
          ELSE page.text)

\* lines 42-50 with the loop left at the first page that raises
RECURSIVE PagesTextUntilRaise(_)
PagesTextUntilRaise(pages) ==
    IF pages = <<>> THEN <<>>
    ELSE IF Head(pages).kind = "raise" THEN <<>>
    ELSE LET text == PageText(Head(pages))
         IN (IF text # <<>> THEN <<text>> ELSE <<>>) \o PagesTextUntilRaise(Tail(pages))

\* lines 42-50: pages_text
RECURSIVE PagesText(_)
PagesText(pages) ==
    IF pages = <<>> THEN <<>>
    ELSE LET text == PageText(Head(pages))
         IN (IF text # <<>> THEN <<text>> ELSE <<>>) \o PagesText(Tail(pages))

\* extract_pdf called by main at line 156, and the print of its result
ExtractPdf ==
    /\ pc = "extract_pdf"
    /\ \E pypdf \in BackendStates : \E pypdf2 \in Fallbacks(pypdf) :
         IF pypdf = "ok" \/ pypdf2 = "ok"
         THEN \E pages \in PageSeqs :
                /\ input' = [kind |-> "pdf", pypdf |-> pypdf, pypdf2 |-> pypdf2,
                             pages |-> pages]
                /\ locals' = PagesText(pages)
                /\ PrintAndExit(Strip(Join(<<"\n", "\n">>, PagesText(pages))))
         ELSE /\ input' = [kind |-> "pdf", pypdf |-> pypdf, pypdf2 |-> pypdf2,
                           pages |-> <<>>]
              /\ locals' = <<>>
              /\ RaiseAndExit("RuntimeError", MissingPdfMsg)
    /\ UNCHANGED <<path, mime, ext, selected, probes, invoked, soffice, prev>>

----------------------------------------------------------------------------
(* extract_pptx                                                            *)

MaxEntries == 3

SlidePrefix == <<"p", "p", "t", "/", "s", "l", "i", "d", "e", "s", "/",
                 "s", "l", "i", "d", "e">>
XmlSuffix == <<".", "x", "m", "l">>

SlideName(digits) == SlidePrefix \o digits \o XmlSuffix

\* entry names of the container: slides 1, 2, 10, a slide without digits,
\* and an entry that is not a slide
SlideNames == { SlideName(<<"1">>), SlideName(<<"2">>), SlideName(<<"1", "0">>),
                SlideName(<<>>) }
OtherNames == { <<"p", "p", "t", "/", "p", "r", "e", "s", ".", "x", "m", "l">> }

\* the a:t nodes of a slide, each given by its text; the empty text stands
\* for a node whose text is None or ''
SlideBodies == { <<>>, << <<>> >>, << <<"a">> >>, << <<" ">> >>,
                 << <<" ", "a">>, <<"b">> >> }

\* the bodies an entry called name can have; only slides are parsed
BodiesOf(name) == IF name \in SlideNames THEN SlideBodies ELSE {<<>>}

\* the containers listing the names ns in that order
RECURSIVE ContainersOf(_)
ContainersOf(ns) ==
    IF ns = <<>> THEN {<<>>}
    ELSE {<<[name |-> Head(ns), texts |-> b]>> \o rest :
             b \in BodiesOf(Head(ns)), rest \in ContainersOf(Tail(ns))}

\* a container: at most MaxEntries entries with distinct names, in the
\* order zf.namelist() lists them
Containers ==
    LET Names == SlideNames \cup OtherNames
        Listings == {ns \in UNION {[1..k -> Names] : k \in 0..MaxEntries} :
                        \A i, j \in 1..Len(ns) : i # j => ns[i] # ns[j]}
    IN UNION {ContainersOf(ns) : ns \in Listings}

IsDigit(ch) == ch \in {"0", "1", "2", "3", "4", "5", "6", "7", "8", "9"}

DigitVal(ch) == CASE ch = "0" -> 0 [] ch = "1" -> 1 [] ch = "2" -> 2
                  [] ch = "3" -> 3 [] ch = "4" -> 4 [] ch = "5" -> 5
                  [] ch = "6" -> 6 [] ch = "7" -> 7 [] ch = "8" -> 8
                  [] ch = "9" -> 9

\* int(digits) for a non-empty string of digits
RECURSIVE ToInt(_)
ToInt(digits) == IF digits = <<>> THEN 0
                 ELSE 10 * ToInt(SubSeq(digits, 1, Len(digits) - 1))
                      + DigitVal(digits[Len(digits)])

\* os.path.basename(name)
BaseName(name) == SubSeq(name, RFind(name, "/") + 1, Len(name))

\* lines 89-93 reading only the first digit
slide_index_first_digit(name) ==
    LET digits == SelectSeq(BaseName(name), IsDigit)
    IN IF digits # <<>> THEN DigitVal(digits[1]) ELSE 0

\* lines 89-93
slide_index(name) ==
    LET digits == SelectSeq(BaseName(name), IsDigit)
    IN IF digits # <<>> THEN ToInt(digits) ELSE 0

\* line 95: list.sort(key=slide_index) is stable; entry e goes after every
\* entry whose key is not greater
RECURSIVE InsertByIndex(_, _)
InsertByIndex(e, sorted) ==
    IF sorted = <<>> THEN <<e>>
    ELSE IF slide_index(e.name) < slide_index(Head(sorted).name)
         THEN <<e>> \o sorted
         ELSE <<Head(sorted)>> \o InsertByIndex(e, Tail(sorted))

RECURSIVE SortSlides(_)
SortSlides(slides) ==
    IF slides = <<>> THEN <<>>
    ELSE InsertByIndex(slides[Len(slides)],
                       SortSlides(SubSeq(slides, 1, Len(slides) - 1)))

\* lines 83-87
IsSlide(e) == StartsWith(e.name, SlidePrefix) /\ EndsWith(e.name, XmlSuffix)

NonEmpty(t) == t # <<>>

\* lines 97-103: slide_texts, each block tagged with the slide it comes from
RECURSIVE SlideTexts(_)
SlideTexts(slides) ==
    IF slides = <<>> THEN <<>>
    ELSE LET texts == SelectSeq(Head(slides).texts, NonEmpty)
         IN (IF texts # <<>>
             THEN <<[slide |-> Head(slides).name,
                     text |-> Strip(Join(<<"\n">>, texts))]>>
             ELSE <<>>) \o SlideTexts(Tail(slides))

BlockTexts(blocks) == [i \in 1..Len(blocks) |-> blocks[i].text]

\* extract_pptx called by main at line 160, and the print of its result
ExtractPptx ==
    /\ pc = "extract_pptx"
    /\ \E zf \in Containers :
         LET slide_texts == SlideTexts(SortSlides(SelectSeq(zf, IsSlide)))
         IN /\ input' = [kind |-> "pptx", zf |-> zf]
            /\ locals' = slide_texts
            /\ PrintAndExit(Strip(Join(<<"\n", "\n">>, BlockTexts(slide_texts))))
    /\ UNCHANGED <<path, mime, ext, selected, probes, invoked, soffice, prev>>

----------------------------------------------------------------------------
(* extract_docx                                                            *)

MaxParas == 2
MaxDocNodes == 3

\* the nodes p.iter() visits: text runs w:t (the empty text stands for a
\* node whose text is None or ''), w:tab, w:br, w:cr, and any other element
DocxNodes == [tag : {"t"}, text : {<<>>, <<"a">>, <<" ">>}]
             \cup [tag : {"tab", "br", "cr", "r"}, text : {<<>>}]

\* the ways to cut the nodes ns into k consecutive paragraphs
RECURSIVE Cuts(_, _)
Cuts(ns, k) ==
    IF k = 0 THEN (IF ns = <<>> THEN {<<>>} ELSE {})
    ELSE UNION { {<<SubSeq(ns, 1, n)>> \o rest :
                     rest \in Cuts(SubSeq(ns, n + 1, Len(ns)), k - 1)}
                 : n \in 0..Len(ns) }

\* a document: at most MaxParas paragraphs w:p, in document order, holding
\* at most MaxDocNodes nodes in all
Documents ==
    UNION { UNION {Cuts(ns, k) : k \in 0..MaxParas}
            : ns \in UNION {[1..n -> DocxNodes] : n \in 0..MaxDocNodes} }

\* lines 65-73: what one node appends to parts
NodePart(node) ==
    IF node.tag = "t" /\ node.text # <<>> THEN node.text
    ELSE IF node.tag = "tab" THEN <<"\t">>
    ELSE IF node.tag \in {"br", "cr"} THEN <<"\n">>
    ELSE <<>>

\* lines 63-74 without the strip of line 74
ParagraphTextUntrimmed(p) == Concat([i \in 1..Len(p) |-> NodePart(p[i])])

\* lines 63-74: paragraph_text
ParagraphText(p) == Strip(Concat([i \in 1..Len(p) |-> NodePart(p[i])]))

\* lines 60-76: paragraphs, each tagged with the position of its w:p
RECURSIVE Paragraphs(_, _)
Paragraphs(doc, i) ==
    IF i > Len(doc) THEN <<>>
    ELSE (IF ParagraphText(doc[i]) # <<>>
          THEN <<[src |-> i, text |-> ParagraphText(doc[i])]>>
          ELSE <<>>) \o Paragraphs(doc, i + 1)

\* extract_docx called by main at line 152, and the print of its result
ExtractDocx ==
    /\ pc = "extract_docx"
    /\ \E doc \in Documents :
         LET paragraphs == Paragraphs(doc, 1)
         IN /\ input' = [kind |-> "docx", doc |-> doc]
            /\ locals' = paragraphs
            /\ PrintAndExit(Strip(Join(<<"\n">>, BlockTexts(paragraphs))))
    /\ UNCHANGED <<path, mime, ext, selected, probes, invoked, soffice, prev>>

----------------------------------------------------------------------------
(* The program: one invocation of the command line                         *)

Next == Main \/ ExtractDocx \/ ExtractPdf \/ ExtractPptx
        \/ ProbeTextutil \/ RunTextutil \/ ProbeAntiword \/ RunAntiword
        \/ ProbeSoffice \/ ProbeLibreoffice \/ RunOffice \/ RaiseUnable

Spec == Init /\ [][Next]_vars

----------------------------------------------------------------------------
(* Two invocations, one after the other, of the command line               *)

\* lines 170-171: the script is started again; the first invocation's
\* arguments and routing are remembered, everything else starts afresh
Relaunch ==
    /\ pc # "start"
    /\ prev = NoRun
    /\ prev' = [selected |-> selected, path |-> path, mime |-> mime]
    /\ pc' = "start"
    /\ path' = <<>>
    /\ mime' = <<>>
    /\ ext' = <<>>
    /\ selected' = None
    /\ stdout' = <<>>
    /\ stderr' = NoError
    /\ exitStatus' = -1
    /\ input' = NoInput
    /\ locals' = <<>>
    /\ result' = <<>>
    /\ probes' = <<>>
    /\ invoked' = <<>>
    /\ soffice' = None

NextRoute == Main \/ Relaunch

SpecRoute == Init /\ [][NextRoute]_vars

----------------------------------------------------------------------------
(* Properties                                                              *)

Supported == {DOCX, PDF, PPTX, DOC}

DocDone == pc = "exit" /\ selected = "extract_doc_via_system_tools"

\* C1: in extract_doc_via_system_tools a backend that was probed present
\* and whose invocation exits non-zero ends the call with that failure: it
\* is the only backend invoked, no candidate is probed after it, and a
\* later candidate is probed only after every earlier one was probed absent.
C1_FailFast ==
    /\ Len(invoked) <= 1
    /\ \A i \in 1..Len(probes) : probes[i].present => i = Len(probes)
    /\ \A i \in 1..Len(invoked) :
          /\ probes # <<>>
          /\ probes[Len(probes)].present
          /\ probes[Len(probes)].tool = invoked[i].tool
          /\ invoked[i].code # 0 =>
                /\ pc = "exit"
                /\ exitStatus = 1
                /\ stderr = [exc |-> "CalledProcessError", msg |-> <<invoked[i].tool>>]
                /\ stdout = <<>>

C1_Witness ==
    /\ DocDone
    /\ invoked = <<[tool |-> "antiword", code |-> 1]>>
    /\ probes[Len(probes)] = [tool |-> "antiword", present |-> TRUE]
    /\ stderr.exc = "CalledProcessError"

\* C2: when pypdf or PyPDF2 is installed, extract_pdf does not end with the
\* "missing Python PDF library" error.
C2_MissingOnlyWhenNoBackend ==
    (pc = "exit" /\ input.kind = "pdf"
       /\ (input.pypdf # "missing" \/ input.pypdf2 \in {"openfails", "ok"}))
    => stderr.msg # MissingPdfMsg

\* the trimmed text a page contributes: nothing when extract_text() raises
\* or returns None
C3_Contribution(page) == IF page.kind = "text" THEN Strip(page.text) ELSE <<>>

\* C3: with a reader open, extract_pdf returns normally whatever pages
\* raise, and its result is the trimmed non-empty texts of the pages that
\* did not raise, in page order, joined by a blank line.
C3_FailingPagesSkipped ==
    (pc = "exit" /\ input.kind = "pdf"
       /\ (input.pypdf = "ok" \/ input.pypdf2 = "ok"))
    => /\ exitStatus = 0
       /\ stderr = NoError
       /\ result = Join(<<"\n", "\n">>,
                        SelectSeq([i \in 1..Len(input.pages) |->
                                      C3_Contribution(input.pages[i])], NonEmpty))
       /\ stdout = result \o <<"\n">>

C3_Witness ==
    /\ pc = "exit" /\ input.kind = "pdf"
    /\ Len(input.pages) = 3
    /\ input.pages[1] = [kind |-> "text", text |-> <<"a">>]
    /\ input.pages[2].kind = "raise"
    /\ input.pages[3] = [kind |-> "text", text |-> <<"a">>]
    /\ result = <<"a", "\n", "\n", "a">>

\* C4: main selects the extractor from the lower-cased extension of the
\* path alone: two invocations with the same path select the same extractor
\* (or are both rejected) whatever their MIME hints.
C4_MimeNeverRoutes ==
    /\ pc # "start" =>
          /\ ext = SplitExt(Lower(path))
          /\ (selected = "extract_docx") = (ext = DOCX)
          /\ (selected = "extract_pdf") = (ext = PDF)
          /\ (selected = "extract_pptx") = (ext = PPTX)
          /\ (selected = "extract_doc_via_system_tools") = (ext = DOC)
          /\ (selected = None) = (ext \notin Supported)
    /\ (pc # "start" /\ prev # NoRun /\ prev.path = path) => prev.selected = selected

C4_Witness ==
    /\ pc = "extract_pdf"
    /\ path = <<"A", ".", "P", "D", "F">>
    /\ prev.path = path
    /\ prev.mime = <<>>
    /\ mime = <<"a", "p", "p", "l", "i", "c", "a", "t", "i", "o", "n", "/", "p", "d", "f">>
    /\ prev.selected = "extract_pdf"

\* C5: for a path whose lower-cased extension is none of .docx, .pdf,
\* .pptx, .doc, main calls no extractor, writes nothing to standard output
\* and exits non-zero with a diagnostic containing that extension and the
\* MIME hint.
C5_UnsupportedRejected ==
    (pc # "start" /\ SplitExt(Lower(path)) \notin Supported)
    => /\ pc = "exit"
       /\ selected = None
       /\ input = NoInput
       /\ stdout = <<>>
       /\ exitStatus > 0
       /\ stderr.exc = "SystemExit"
       /\ Contains(stderr.msg, SplitExt(Lower(path)))
       /\ Contains(stderr.msg, <<"m", "i", "m", "e", "=">> \o mime)

C5_Witness ==
    /\ pc = "exit"
    /\ path = <<"a", ".", "X", "Y", "Z">>
    /\ mime = <<"a", "p", "p", "l", "i", "c", "a", "t", "i", "o", "n", "/", "p", "d", "f">>
    /\ exitStatus = 1
    /\ Contains(stderr.msg, <<".", "x", "y", "z">>)

PptxDone == pc = "exit" /\ input.kind = "pptx"

\* the positions of the blocks of slide name in slide_texts
C6_Pos(name) == {i \in 1..Len(locals) : locals[i].slide = name}

\* C6: the slide blocks of extract_pptx are in ascending order of the
\* number formed by the digits of the slide's file name (0 without
\* digits): none, 1, 2, 10, whatever the order of the container's listing.
C6_NumericSlideOrder ==
    PptxDone =>
       /\ \A i, j \in 1..Len(locals) :
             i < j => slide_index(locals[i].slide) <= slide_index(locals[j].slide)
       /\ \A i \in C6_Pos(SlideName(<<>>)), j \in C6_Pos(SlideName(<<"1">>)) : i < j
       /\ \A i \in C6_Pos(SlideName(<<"1">>)), j \in C6_Pos(SlideName(<<"2">>)) : i < j
       /\ \A i \in C6_Pos(SlideName(<<"2">>)), j \in C6_Pos(SlideName(<<"1", "0">>)) : i < j
       /\ \A i \in 1..Len(locals) :
             \E k \in 1..Len(input.zf) :
                /\ input.zf[k].name = locals[i].slide
                /\ locals[i].text
                     = Strip(Join(<<"\n">>, SelectSeq(input.zf[k].texts, NonEmpty)))

C6_Witness ==
    /\ PptxDone
    /\ Len(input.zf) = 3
    /\ input.zf[1].name = SlideName(<<"1">>)
    /\ input.zf[2].name = SlideName(<<"1", "0">>)
    /\ input.zf[3].name = SlideName(<<"2">>)
    /\ Len(locals) = 3
    /\ locals[2].slide = SlideName(<<"2">>)
    /\ locals[3].slide = SlideName(<<"1", "0">>)

\* C7: off Darwin, with antiword, soffice and libreoffice all probed
\* absent, extract_doc_via_system_tools invokes no backend and the process
\* exits non-zero with an error naming a remediation (convert to .docx,
\* install antiword or LibreOffice).
C7_NoBackend ==
    (input.kind = "doc" /\ ~input.darwin
       /\ probes = << [tool |-> "antiword", present |-> FALSE],
                      [tool |-> "soffice", present |-> FALSE],
                      [tool |-> "libreoffice", present |-> FALSE] >>)
    => /\ invoked = <<>>
       /\ pc \in {"raise_unable", "exit"}
       /\ pc = "exit" =>
             /\ exitStatus > 0
             /\ stdout = <<>>
             /\ stderr.exc = "RuntimeError"
             /\ \E i \in 1..Len(stderr.msg) :
                   stderr.msg[i] \in {"Convert to .docx", "'antiword'", "LibreOffice"}

C7_Witness ==
    /\ DocDone
    /\ ~input.darwin
    /\ Len(probes) = 3
    /\ \A i \in 1..3 : ~probes[i].present
    /\ stderr.exc = "RuntimeError"

DocxDone == pc = "exit" /\ input.kind = "docx"

C8_CountChar(s, c) == Cardinality({i \in 1..Len(s) : s[i] = c})
C8_CountTag(p, tags) == Cardinality({i \in 1..Len(p) : p[i].tag \in tags})

\* the characters the nodes of p stand for, one after the other
C8_Render(p) ==
    Concat([i \in 1..Len(p) |->
              CASE p[i].tag = "t" -> p[i].text
                [] p[i].tag = "tab" -> <<"\t">>
                [] p[i].tag \in {"br", "cr"} -> <<"\n">>
                [] OTHER -> <<>>])

\* a text run holding a character that trimming keeps
C8_Ink(node) == node.tag = "t" /\ \E i \in 1..Len(node.text) : ~IsSpace(node.text[i])
C8_HasInk(p) == \E i \in 1..Len(p) : C8_Ink(p[i])

\* the nodes of p from its first to its last text run holding such a character
C8_Interior(p) ==
    LET inked == {i \in 1..Len(p) : C8_Ink(p[i])}
        first == CHOOSE i \in inked : \A j \in inked : i <= j
        last == CHOOSE i \in inked : \A j \in inked : j <= i
    IN SubSeq(p, first, last)

\* the kept paragraphs are, in document order, those not empty after
\* trimming, and the text is their join by single newlines
C8_OrderAndDrop ==
    /\ \A i, j \in 1..Len(locals) : i < j => locals[i].src < locals[j].src
    /\ {locals[j].src : j \in 1..Len(locals)}
          = {i \in 1..Len(input.doc) : C8_HasInk(input.doc[i])}
    /\ result = Join(<<"\n">>, BlockTexts(locals))
    /\ stdout = result \o <<"\n">>

\* C8 as stated: paragraphs in document order, empty ones dropped, and
\* every tab node of a kept paragraph rendered as a tab character, every
\* br/cr node as a newline.
C8_EveryMarkerRendered ==
    DocxDone =>
       /\ C8_OrderAndDrop
       /\ \A j \in 1..Len(locals) :
             LET p == input.doc[locals[j].src]
             IN /\ C8_CountChar(locals[j].text, "\t") = C8_CountTag(p, {"tab"})
                /\ C8_CountChar(locals[j].text, "\n") = C8_CountTag(p, {"br", "cr"})

\* C8 amended: paragraphs in document order, empty ones dropped, and every
\* tab and br/cr node lying between the first and the last non-whitespace
\* text of its paragraph rendered as a tab character and a newline; the
\* markers before the first or after the last such text are trimmed away.
C8_InteriorMarkersRendered ==
    DocxDone =>
       /\ C8_OrderAndDrop
       /\ \A j \in 1..Len(locals) :
             LET p == C8_Interior(input.doc[locals[j].src])
             IN /\ C8_CountChar(locals[j].text, "\t") = C8_CountTag(p, {"tab"})
                /\ C8_CountChar(locals[j].text, "\n") = C8_CountTag(p, {"br", "cr"})
                /\ locals[j].text = C8_Render(p)

C8_Witness ==
    /\ DocxDone
    /\ Len(input.doc) = 1
    /\ Len(input.doc[1]) = 3
    /\ input.doc[1][1].text = <<"a">>
    /\ input.doc[1][2].tag = "tab"
    /\ input.doc[1][3].text = <<"a">>
    /\ result = <<"a", "\t", "a">>

\* C9: extract_pptx joins only non-empty slide blocks: a slide whose
\* drawing text is empty after trimming contributes no block, and the
\* result never holds more than one blank line between blocks.
C9_NoEmptyBlock ==
    PptxDone =>
       /\ \A i \in 1..Len(locals) : locals[i].text # <<>>
       /\ ~Contains(result, <<"\n", "\n", "\n">>)

\* C10: the "Unable to extract .doc on this system" error is raised only
\* when every candidate was probed absent; a backend probed present whose
\* invocation exits with status zero makes the call return text.
C10_UnableOnlyWhenAllAbsent ==
    /\ (stderr.exc = "RuntimeError" /\ stderr.msg = UnableMsg)
          => \A i \in 1..Len(probes) : ~probes[i].present
    /\ (DocDone /\ \E i \in 1..Len(invoked) : invoked[i].code = 0)
          => exitStatus = 0

====
